---- MODULE Spec2Model ----
(***************************************************************************)
(* State-machine model of src/app.py ("The War Games", a Streamlit app).   *)
(*                                                                         *)
(* One action is one user interaction: the widget callback or the button   *)
(* handler, followed by the complete top-to-bottom run of the script that  *)
(* Streamlit performs after it.  The variable `view` holds what that run   *)
(* rendered.  Time and the content of the remote spreadsheet belong to     *)
(* the environment: the clock advances by Tick, and every network fetch    *)
(* may answer with any of the Responses.                                   *)
(***************************************************************************)
EXTENDS Integers, Sequences, FiniteSets, TLC

VARIABLES
    team1_df,       \* st.session_state.team1_df
    team2_df,       \* st.session_state.team2_df
    imprevisti_df,  \* st.session_state.imprevisti_df
    cache,          \* entries of @st.cache_data on load_data_from_gdrive
    clock,          \* seconds since the process started
    number_input,   \* state of the st.number_input widget (selected_event)
    view,           \* what the last script run rendered
    execs,          \* history: the executions of the body of load_data_from_gdrive
    last,           \* history: the record of the latest click on the load button
    nLoads,         \* history: number of clicks on the load button
    edits,          \* history: the value last typed into each Valore cell
    sessions,       \* the sessions of a process that serves several browsers
    actor           \* history: the session of the latest interaction

vars == <<team1_df, team2_df, imprevisti_df, cache, clock, number_input,
          view, execs, last, nLoads, edits, sessions, actor>>

(***************************************************************************)
(* Bounds of the model.                                                    *)
(***************************************************************************)
MaxLoads == 2    \* clicks on the load button
MaxReloads == 3  \* clicks on the load button where a panel is lost and regained

(***************************************************************************)
(* Program constants.                                                      *)
(***************************************************************************)
NumRows   == 8      \* [100] * 8
ttl       == 600    \* @st.cache_data(ttl=600)
min_value == 0      \* NumberColumn(min_value=0)
max_value == 100    \* NumberColumn(max_value=100)
Default   == 100    \* "Valore": [100] * 8

\* Python's None, a session_state key that is not set, and a null cell
None   == [kind |-> "None"]
Absent == [kind |-> "Absent"]
NaN    == "NaN"

(***************************************************************************)
(* Python helpers: substring test, str.split, list indexing.               *)
(* A string is a sequence of symbols; "google.com" is one symbol.          *)
(***************************************************************************)
Min(S) == CHOOSE x \in S : \A y \in S : x <= y

\* positions at which sub occurs in s
Occurrences(s, sub) ==
    { i \in 1..(Len(s) - Len(sub) + 1) : SubSeq(s, i, i + Len(sub) - 1) = sub }

\* sub in s
In(sub, s) == Occurrences(s, sub) # {}

\* s.split(sep): non-overlapping, left to right, always at least one part
RECURSIVE split(_, _)
split(s, sep) ==
    IF Occurrences(s, sep) = {}
    THEN << s >>
    ELSE LET i == Min(Occurrences(s, sep))
         IN  << SubSeq(s, 1, i - 1) >> \o split(SubSeq(s, i + Len(sep), Len(s)), sep)

\* list[k] with Python's 0-based positions; negative k counts from the end
PyIndex(list, k) ==
    IF k >= 0 /\ k < Len(list) THEN list[k + 1]
    ELSE IF k < 0 /\ -k <= Len(list) THEN list[Len(list) + k + 1]
    ELSE "IndexError"

(***************************************************************************)
(* Inputs: the URLs the user may type and the answers of the network.      *)
(***************************************************************************)
HostMarker == << "google.com" >>                 \* 'google.com'
DMarker    == << "/", "d", "/" >>                \* '/d/'
Slash      == << "/" >>                          \* '/'

UrlEmpty    == << >>                                             \* ''
UrlNoHost   == << "example.com", "/", "d", "/", "a", "/" >>
UrlNoD      == << "google.com", "/", "a" >>
UrlNoSlash  == << "google.com", "/", "d", "/", "a" >>
UrlA        == << "google.com", "/", "d", "/", "a", "/", "edit" >>

Urls == { UrlEmpty, UrlNoHost, UrlNoD, UrlNoSlash, UrlA }

\* a DataFrame read from the sheet maps each column name to its cells
Doc2     == [imprevisto |-> << "flood", NaN, "riot" >>]
Doc1     == [imprevisto |-> << NaN, "quake" >>]
DocEmpty == [imprevisto |-> << NaN >>]
DocNoCol == [Imprevisto |-> << "flood" >>]
Unreachable == [kind |-> "Unreachable"]          \* pd.read_excel raises

Responses == { Doc2, Doc1, DocEmpty, DocNoCol, Unreachable }

(***************************************************************************)
(* load_data_from_gdrive, lines 36-65.                                     *)
(***************************************************************************)
\* line 44: 'google.com' in url
HasHostOrPath(url) == In(HostMarker, url) \/ In(DMarker, url)
HasHostMarker(url) == In(HostMarker, url)

\* line 48: url.split('/d/')[1].split('/')[0]; [1] raises IndexError when
\* the URL has no '/d/'
ExtractFileIdLenient(url) ==
    LET parts == split(url, DMarker)
    IN  [raised |-> FALSE, file_id |-> split(parts[Len(parts)], Slash)[1]]
ExtractFileId(url) ==
    LET parts == split(url, DMarker)
    IN  IF Len(parts) < 2
        THEN [raised |-> TRUE, file_id |-> << >>]
        ELSE [raised |-> FALSE, file_id |-> split(parts[2], Slash)[1]]

\* line 49
ExportUrl(file_id) ==
    << "https://docs.google.com/spreadsheets/d/" >> \o file_id
        \o << "/export?format=xlsx" >>

\* line 56: 'imprevisto' not in df.columns
MissingColumn(df) == "imprevisto" \notin DOMAIN df

\* the messages of the three st.error call sites (lines 45, 57, 63-64)
ErrInvalidUrl == "error: URL non valido"
ErrSchema     == "error: il file DEVE avere una colonna 'imprevisto'"
ErrException  == "error: Errore nel caricamento o lettura del file"
InfoSharing   == "info: Assicurati che il link sia 'Chiunque abbia il link'"

\* What one execution of the function body does.  value is the returned
\* DataFrame or None; msgs the st.* elements it emits; exc the exception the
\* except clause caught; extracted says whether line 48 produced a file_id
\* and fetched whether line 53 went to the network.
\* lines 48-65, for the outcome x of line 48 and the answer resp of the network
DownloadKeyError(x, resp) ==
    IF x.raised
    THEN [value |-> None, msgs |-> {ErrException, InfoSharing},
          exc |-> "IndexError",
          extracted |-> FALSE, fetched |-> FALSE, export_url |-> << >>]
    ELSE IF resp = Unreachable
    THEN [value |-> None, msgs |-> {ErrException, InfoSharing},
          exc |-> "read_excel",
          extracted |-> TRUE, fetched |-> TRUE,
          export_url |-> ExportUrl(x.file_id)]
    ELSE IF MissingColumn(resp)
    THEN [value |-> None, msgs |-> {ErrException, InfoSharing},
          exc |-> "KeyError",
          extracted |-> TRUE, fetched |-> TRUE,
          export_url |-> ExportUrl(x.file_id)]
    ELSE [value |-> resp, msgs |-> {}, exc |-> "-",
          extracted |-> TRUE, fetched |-> TRUE,
          export_url |-> ExportUrl(x.file_id)]
Download(x, resp) ==
    IF x.raised
    THEN [value |-> None, msgs |-> {ErrException, InfoSharing},
          exc |-> "IndexError",
          extracted |-> FALSE, fetched |-> FALSE, export_url |-> << >>]
    ELSE IF resp = Unreachable
    THEN [value |-> None, msgs |-> {ErrException, InfoSharing},
          exc |-> "read_excel",
          extracted |-> TRUE, fetched |-> TRUE,
          export_url |-> ExportUrl(x.file_id)]
    ELSE IF MissingColumn(resp)
    THEN [value |-> None, msgs |-> {ErrSchema}, exc |-> "-",
          extracted |-> TRUE, fetched |-> TRUE,
          export_url |-> ExportUrl(x.file_id)]
    ELSE [value |-> resp, msgs |-> {}, exc |-> "-",
          extracted |-> TRUE, fetched |-> TRUE,
          export_url |-> ExportUrl(x.file_id)]

\* lines 41-65
load_data_from_gdrive(url, resp) ==
    IF ~HasHostMarker(url)
    THEN [value |-> None, msgs |-> {ErrInvalidUrl}, exc |-> "-",
          extracted |-> FALSE, fetched |-> FALSE, export_url |-> << >>]
    ELSE Download(ExtractFileId(url), resp)

(***************************************************************************)
(* @st.cache_data(ttl=600), line 35: entries are keyed by the argument,    *)
(* hold the returned value and the elements to replay, and expire by age.  *)
(***************************************************************************)
CacheNever(c, now, url) == FALSE
CacheHitOnSuccess(c, now, url) ==
    url \in DOMAIN c /\ now - c[url].ts < ttl /\ c[url].value # None
CacheHit(c, now, url) == url \in DOMAIN c /\ now - c[url].ts < ttl

\* a miss: the body was executed with result r, which is stored
CacheMiss(c, now, url, resp, r) ==
    [value |-> r.value, msgs |-> r.msgs, hit |-> FALSE,
     exc |-> r.exc, extracted |-> r.extracted, fetched |-> r.fetched,
     export_url |-> r.export_url,
     resp |-> IF r.fetched THEN << resp >> ELSE << >>,
     ran |-> << [url |-> url, t |-> now, value |-> r.value,
                 fetched |-> r.fetched] >>,
     cache |-> [u \in (DOMAIN c) \cup {url} |->
                   IF u = url
                   THEN [value |-> r.value, msgs |-> r.msgs, ts |-> now]
                   ELSE c[u]]]

CachedLoad(c, now, url, resp) ==
    IF CacheHit(c, now, url)
    THEN [value |-> c[url].value, msgs |-> c[url].msgs, hit |-> TRUE,
          exc |-> "-", extracted |-> FALSE, fetched |-> FALSE,
          export_url |-> << >>, resp |-> << >>, ran |-> << >>, cache |-> c]
    ELSE CacheMiss(c, now, url, resp, load_data_from_gdrive(url, resp))

(***************************************************************************)
(* Team tables: a DataFrame maps each column to its values by row          *)
(* position 0..7 (the default RangeIndex).                                 *)
(***************************************************************************)
Rows == 0..(NumRows - 1)

FactorNames == << "Popolazione", "Cibo", "Finanze", "Ospedali", "Scuole",
                  "Centrali Elettriche", "Luoghi di Culto", "Solidarieta" >>

\* lines 17-21
default_data ==
    [Fattore |-> [r \in Rows |-> FactorNames[r + 1]],
     Valore  |-> [r \in Rows |-> Default],
     Barra   |-> [r \in Rows |-> Default]]

\* lines 13-33: every key is set only when it is not in the session state
initialize_state_anew(ss) ==
    [team1_df      |-> default_data,
     team2_df      |-> default_data,
     imprevisti_df |-> IF ss.imprevisti_df = Absent THEN None
                       ELSE ss.imprevisti_df]
initialize_state(ss) ==
    [team1_df      |-> IF ss.team1_df = Absent THEN default_data ELSE ss.team1_df,
     team2_df      |-> IF ss.team2_df = Absent THEN default_data ELSE ss.team2_df,
     imprevisti_df |-> IF ss.imprevisti_df = Absent THEN None
                       ELSE ss.imprevisti_df]

\* the values the model types into a Valore cell; the NumberColumn accepts
\* min_value..max_value only (lines 137-141)
ValuesUnchecked == { 0, 100, 101 }
Values == { v \in {0, 100} : min_value <= v /\ v <= max_value }

\* editor_team*.edited_rows: row position -> {'Valore': v}, sparse, not empty
\* the rows the model edits
EditRows == { 0, 2 }
EditedDicts ==
    UNION { [S -> [Valore : Values]] : S \in (SUBSET EditRows) \ {{}} }

\* lines 75-77 and 88-90: the loop body, for every entry of edited_rows
SyncValoreOnly(df, edited_dict) ==
    [df EXCEPT !.Valore = [r \in Rows |-> IF r \in DOMAIN edited_dict
                                          THEN edited_dict[r].Valore
                                          ELSE df.Valore[r]]]
SyncRows(df, edited_dict) ==
    [df EXCEPT !.Valore = [r \in Rows |-> IF r \in DOMAIN edited_dict
                                          THEN edited_dict[r].Valore
                                          ELSE df.Valore[r]],
               !.Barra  = [r \in Rows |-> IF r \in DOMAIN edited_dict
                                          THEN edited_dict[r].Valore
                                          ELSE df.Barra[r]]]

\* lines 67-77
sync_both(ss, edited_dict) ==
    [ss EXCEPT !.team1_df = SyncRows(ss.team1_df, edited_dict),
               !.team2_df = SyncRows(ss.team2_df, edited_dict)]
sync_team1(ss, edited_dict) ==
    [ss EXCEPT !.team1_df = SyncRows(ss.team1_df, edited_dict)]

\* lines 80-90
sync_team2(ss, edited_dict) ==
    [ss EXCEPT !.team2_df = SyncRows(ss.team2_df, edited_dict)]

(***************************************************************************)
(* The script, lines 93-251.                                               *)
(***************************************************************************)
\* lines 119-123: what the handler stores for the value the loader returned
StoreKeepOnFailure(old, data) == IF data # None THEN data ELSE old
StoreLoaded(old, data) == IF data # None THEN data ELSE None

\* lines 213 and 218: (df['Valore'] <= 0).any()
AnyBelowZero(df) == \E r \in Rows : df.Valore[r] < 0
AnyNotPositive(df) == \E r \in Rows : df.Valore[r] <= 0

\* line 227: df['imprevisto'].dropna().tolist()
dropnaBottomUp(cells) ==
    [i \in 1..Len(SelectSeq(cells, LAMBDA c : c # NaN)) |->
        SelectSeq(cells, LAMBDA c : c # NaN)[
            Len(SelectSeq(cells, LAMBDA c : c # NaN)) + 1 - i]]
dropna(cells) == SelectSeq(cells, LAMBDA c : c # NaN)

\* lines 235-241: a widget without key is identified by its arguments, here
\* the label and max_value, both made from event_number; a widget with a
\* new identity starts from value=1, one that was not rendered is forgotten
NoWidget == [max |-> 0, value |-> 0]
KeepSelected(w, event_number) ==
    IF w # NoWidget THEN [max |-> event_number, value |-> w.value]
    ELSE [max |-> event_number, value |-> 1]
NumberInput(w, event_number) ==
    IF w.max = event_number THEN w ELSE [max |-> event_number, value |-> 1]

\* line 244: event_list[selected_event - 1]
ChosenSameIndex(event_list, selected_event) ==
    PyIndex(event_list, selected_event % Len(event_list))
Chosen(event_list, selected_event) == PyIndex(event_list, selected_event - 1)

NoClick == [clicked |-> FALSE, url |-> << >>, resp |-> Unreachable]

\* lines 118-123: data is what the cached loader returned
Loaded(ss, now, click, data) ==
    [ss |-> [ss EXCEPT !.imprevisti_df = StoreLoaded(@, data.value)],
     cache |-> data.cache,
     msgs |-> data.msgs \cup (IF data.value # None THEN {"success: Caricati"}
                              ELSE {}),
     attempt |-> << [url |-> click.url, t |-> now, called |-> TRUE,
                     hit |-> data.hit, value |-> data.value, msgs |-> data.msgs,
                     exc |-> data.exc, extracted |-> data.extracted,
                     fetched |-> data.fetched,
                     export_url |-> data.export_url, resp |-> data.resp] >>,
     ran |-> data.ran]

\* lines 115-125: the load button.  Returns the session state, the cache,
\* the record of the attempt (<< >> when nothing was clicked; resp is the
\* answer of the network when there was a fetch) and the record of the
\* execution of the function body (<< >> when it was not executed).
LoadButton(ss, c, now, click) ==
    IF ~click.clicked
    THEN [ss |-> ss, cache |-> c, msgs |-> {}, attempt |-> << >>, ran |-> << >>]
    ELSE IF click.url = << >>
    THEN [ss |-> ss, cache |-> c, msgs |-> {"warning: inserisci un URL valido"},
          attempt |-> << [url |-> click.url, t |-> now, called |-> FALSE,
                          hit |-> FALSE, value |-> None, msgs |-> {},
                          exc |-> "-", extracted |-> FALSE, fetched |-> FALSE,
                          export_url |-> << >>, resp |-> << >>] >>,
          ran |-> << >>]
    ELSE Loaded(ss, now, click, CachedLoad(c, now, click.url, click.resp))

\* lines 129-248: the panel, for the verdicts of lines 213 and 218, the
\* event list of line 227 and the number input of lines 235-241
GamePanel(ss, lost1, lost2, event_list, nw) ==
    [view |-> [panel |-> TRUE,
               msgs |-> (IF lost1 THEN {"error: GIOCO FINITO Squadra 1"} ELSE {})
                   \cup (IF lost2 THEN {"error: GIOCO FINITO Squadra 2"} ELSE {})
                   \cup (IF event_list = << >>
                         THEN {"warning: Nessun imprevisto valido"}
                         ELSE {"warning: Imprevisto Pescato"})
                   \cup (IF event_list # << >> /\ (lost1 \/ lost2)
                         THEN {"warning: Il gioco e' terminato"}
                         ELSE {}),
               barra1 |-> ss.team1_df.Barra, barra2 |-> ss.team2_df.Barra,
               lost1 |-> lost1, lost2 |-> lost2, game_over |-> lost1 \/ lost2,
               stopped |-> event_list = << >>,
               event_list |-> event_list,
               selected_event |-> nw.value,
               chosen_event |-> IF event_list = << >> THEN "-"
                                ELSE Chosen(event_list, nw.value)],
     number_input |-> nw]

\* lines 229-241: st.stop() before the number input when the list is empty
SelectedEventNoStop(w, event_list) == NumberInput(w, Len(event_list))
SelectedEvent(w, event_list) ==
    IF event_list = << >> THEN NoWidget ELSE NumberInput(w, Len(event_list))

\* lines 227-241
DrawPanel(ss, w, lost1, lost2, event_list) ==
    GamePanel(ss, lost1, lost2, event_list, SelectedEvent(w, event_list))

\* lines 128-251: the game panel, or the hint to load a sheet
Panel(ss, w) ==
    IF ss.imprevisti_df = None
    THEN [view |-> [panel |-> FALSE, msgs |-> {"info: Inserisci l'URL"},
                    barra1 |-> << >>, barra2 |-> << >>,
                    lost1 |-> FALSE, lost2 |-> FALSE, game_over |-> FALSE,
                    stopped |-> FALSE, event_list |-> << >>,
                    selected_event |-> 0, chosen_event |-> "-"],
          number_input |-> NoWidget]
    ELSE DrawPanel(ss, w, AnyNotPositive(ss.team1_df), AnyNotPositive(ss.team2_df),
                   dropna(ss.imprevisti_df.imprevisto))

\* one run of the script from the top: lines 93-125, which change the state
Run(ss, c, now, click) == LoadButton(initialize_state(ss), c, now, click)

\* and lines 127-251, which render the state b that they leave
Render(b, w) == Panel(b.ss, w)

(***************************************************************************)
(* State machine.                                                          *)
(***************************************************************************)
Session == [team1_df |-> team1_df, team2_df |-> team2_df,
            imprevisti_df |-> imprevisti_df]

\* what a run leaves behind: b from lines 93-125, r from lines 127-251
Commit(b, r) ==
    /\ team1_df' = b.ss.team1_df
    /\ team2_df' = b.ss.team2_df
    /\ imprevisti_df' = b.ss.imprevisti_df
    /\ cache' = b.cache
    /\ last' = IF b.attempt = << >> THEN last ELSE b.attempt
    /\ execs' = execs \o b.ran
    /\ nLoads' = nLoads + Len(b.attempt)
    /\ number_input' = r.number_input
    /\ view' = [r.view EXCEPT !.msgs = @ \cup b.msgs]
    /\ UNCHANGED << clock, sessions, actor >>

Rendered(b, w) == Commit(b, Render(b, w))

\* one interaction pass: the script runs on session state ss (the state the
\* callback of the interaction, if any, has left) with widget state w
Pass(ss, w, click) == Rendered(Run(ss, cache, clock, click), w)

\* a new session: no key is set, no widget exists, the script has run once
NewSession == [team1_df |-> Absent, team2_df |-> Absent, imprevisti_df |-> Absent]

FirstRun == Run(NewSession, << >>, 0, NoClick)

\* history of the edits: nothing typed yet, and the record after edited_dict
NoEdits == [r \in Rows |-> Default]
Typed(h, edited_dict) ==
    [r \in Rows |-> IF r \in DOMAIN edited_dict THEN edited_dict[r].Valore
                    ELSE h[r]]

\* Several browsers on one process: st.session_state and the widgets belong
\* to the session, the entries of @st.cache_data to the process.
SessionIds == { "s1", "s2" }

\* what a run leaves in its session
Browser(b, r) ==
    [ss |-> b.ss, number_input |-> r.number_input,
     view |-> [r.view EXCEPT !.msgs = @ \cup b.msgs]]

Init ==
    /\ team1_df = FirstRun.ss.team1_df
    /\ team2_df = FirstRun.ss.team2_df
    /\ imprevisti_df = FirstRun.ss.imprevisti_df
    /\ cache = FirstRun.cache
    /\ clock = 0
    /\ number_input = Render(FirstRun, NoWidget).number_input
    /\ view = Render(FirstRun, NoWidget).view
    /\ execs = << >>
    /\ last = << >>
    /\ nLoads = 0
    /\ edits = [team1 |-> NoEdits, team2 |-> NoEdits]
    /\ sessions = [s \in SessionIds |->
                      Browser(FirstRun, Render(FirstRun, NoWidget))]
    /\ actor = "-"

\* the user types url and clicks "Carica Imprevisti e Inizia Gioco"; a fetch
\* made in this pass is answered with resp
LoadClick(url, resp) ==
    /\ nLoads < MaxLoads
    /\ Pass(Session, number_input, [clicked |-> TRUE, url |-> url, resp |-> resp])
    /\ UNCHANGED edits

Load == \E url \in Urls, resp \in Responses : LoadClick(url, resp)

\* lines 128 and 182-208: both editors are on the page, and take edits,
\* whenever the last run rendered the panel; game_over is not consulted
EditorsUntilGameOver == view.panel /\ ~view.game_over
EditorsShown == view.panel

\* the user edits cells of the Team 1 editor: on_change=sync_team1 runs,
\* then the script
EditCells1Late(edited_dict) ==
    /\ EditorsShown
    /\ Commit([Run(Session, cache, clock, NoClick)
                  EXCEPT !.ss = sync_team1(@, edited_dict)],
              Render(Run(Session, cache, clock, NoClick), number_input))
    /\ edits' = [edits EXCEPT !.team1 = Typed(@, edited_dict)]
EditCells1(edited_dict) ==
    /\ EditorsShown
    /\ Pass(sync_team1(Session, edited_dict), number_input, NoClick)
    /\ edits' = [edits EXCEPT !.team1 = Typed(@, edited_dict)]

EditTeam1 == \E edited_dict \in EditedDicts : EditCells1(edited_dict)

\* the user edits cells of the Team 2 editor: on_change=sync_team2 runs,
\* then the script
EditCells2(edited_dict) ==
    /\ EditorsShown
    /\ Pass(sync_team2(Session, edited_dict), number_input, NoClick)
    /\ edits' = [edits EXCEPT !.team2 = Typed(@, edited_dict)]

EditTeam2 == \E edited_dict \in EditedDicts : EditCells2(edited_dict)

\* the user changes the number input to i, a value within its bounds
DrawIndex(i) ==
    /\ number_input # NoWidget
    /\ i \in 1..number_input.max
    /\ i # number_input.value
    /\ Pass(Session, [number_input EXCEPT !.value = i], NoClick)
    /\ UNCHANGED edits

Draw == \E i \in 1..number_input.max : DrawIndex(i)

\* time passes: the lifetime of a cache entry, after which the entries made
\* so far have expired
Tick ==
    /\ clock < ttl
    /\ clock' = clock + ttl
    /\ UNCHANGED << team1_df, team2_df, imprevisti_df, cache, number_input,
                    view, execs, last, nLoads, edits, sessions, actor >>

Next == Load \/ EditTeam1 \/ EditTeam2 \/ Draw \/ Tick

Spec == Init /\ [][Next]_vars

(***************************************************************************)
(* Several sessions on one process.  Every session runs the same script on *)
(* its own st.session_state and widgets; the cache of the loader, the      *)
(* clock and the network are those of the process.                         *)
(***************************************************************************)
\* the inputs of the sessions
SharedUrls      == { UrlA, UrlNoHost }
SharedResponses == { Doc2, Doc1 }
SharedEdits     == { edited_dict \in EditedDicts : DOMAIN edited_dict = {0} }

\* the sessions after session s has been left as x
StoredInEverySession(s, x) == [o \in SessionIds |-> x]
StoredInSession(s, x) == [sessions EXCEPT ![s] = x]

\* what a run in session s leaves behind: b from lines 93-125, r from
\* lines 127-251
SessionCommit(s, b, r) ==
    /\ sessions' = StoredInSession(s, Browser(b, r))
    /\ cache' = b.cache
    /\ last' = IF b.attempt = << >> THEN last ELSE b.attempt
    /\ execs' = execs \o b.ran
    /\ nLoads' = nLoads + Len(b.attempt)
    /\ actor' = s
    /\ UNCHANGED << team1_df, team2_df, imprevisti_df, number_input, view,
                    clock, edits >>

SessionRendered(s, b) ==
    SessionCommit(s, b, Render(b, sessions[s].number_input))

\* one interaction pass of session s on its session state ss
SessionPass(s, ss, click) == SessionRendered(s, Run(ss, cache, clock, click))

SessionLoadClick(s, url, resp) ==
    /\ nLoads < MaxLoads
    /\ SessionPass(s, sessions[s].ss,
                   [clicked |-> TRUE, url |-> url, resp |-> resp])

SessionLoad ==
    \E s \in SessionIds, url \in SharedUrls, resp \in SharedResponses :
        SessionLoadClick(s, url, resp)

SessionEditCells1(s, edited_dict) ==
    /\ sessions[s].view.panel
    /\ SessionPass(s, sync_team1(sessions[s].ss, edited_dict), NoClick)

SessionEdit1 ==
    \E s \in SessionIds, edited_dict \in SharedEdits :
        SessionEditCells1(s, edited_dict)

SessionEditCells2(s, edited_dict) ==
    /\ sessions[s].view.panel
    /\ SessionPass(s, sync_team2(sessions[s].ss, edited_dict), NoClick)

SessionEdit2 ==
    \E s \in SessionIds, edited_dict \in SharedEdits :
        SessionEditCells2(s, edited_dict)

NextShared == SessionLoad \/ SessionEdit1 \/ SessionEdit2 \/ Tick

SpecShared == Init /\ [][NextShared]_vars

(***************************************************************************)
(* Losing and regaining the panel: one sheet, a URL that loads it and a    *)
(* URL that fails, and one more click on the load button.                  *)
(***************************************************************************)
ReloadUrls      == { UrlA, UrlNoD }
ReloadResponses == { Doc2 }

ReloadClick(url, resp) ==
    /\ nLoads < MaxReloads
    /\ Pass(Session, number_input, [clicked |-> TRUE, url |-> url, resp |-> resp])
    /\ UNCHANGED edits

Reload == \E url \in ReloadUrls, resp \in ReloadResponses : ReloadClick(url, resp)

NextReload == Reload \/ EditTeam1 \/ EditTeam2 \/ Draw \/ Tick

SpecReload == Init /\ [][NextReload]_vars

(***************************************************************************)
(* Properties.                                                             *)
(***************************************************************************)
Clicked == last # << >>
Attempt == last[1]

\* the step is a click on the load button whose attempt failed
FailedLoadStep == nLoads' = nLoads + 1 /\ last'[1].value = None

\* C1 as stated: a load attempt that fails leaves the catalog exactly as it
\* was before the attempt, present or absent.
C1_FailedLoadKeepsCatalog ==
    [][FailedLoadStep => imprevisti_df' = imprevisti_df]_vars

\* C1 as amended: a failed attempt that reached the loader sets the catalog to
\* None whatever it was before (a catalog loaded earlier is dropped, an absent
\* one stays absent); only the attempt with an empty URL, which never calls
\* the loader, leaves the catalog as it was.  Neither touches the team tables.
C1_FailedLoadClearsCatalog ==
    [][FailedLoadStep =>
          /\ last'[1].called => imprevisti_df' = None
          /\ ~last'[1].called => imprevisti_df' = imprevisti_df
          /\ team1_df' = team1_df /\ team2_df' = team2_df]_vars

\* a catalog was loaded by the first click and the second click failed
C1_Witness ==
    /\ nLoads = 2
    /\ Attempt.called /\ Attempt.value = None
    /\ \E u \in DOMAIN cache : cache[u].value # None
    /\ imprevisti_df = None

\* C2: in every reachable state, hence after every completed edit callback,
\* every row of both team tables has Barra equal to Valore.
C2_BarraEqualsValore ==
    \A r \in Rows :
        /\ team1_df.Barra[r] = team1_df.Valore[r]
        /\ team2_df.Barra[r] = team2_df.Valore[r]

\* both tables have been edited away from their initial values
C2_Witness ==
    /\ team1_df.Valore[0] = 0 /\ team1_df.Barra[0] = 0
    /\ team2_df.Valore[2] = 0 /\ team2_df.Barra[2] = 0

\* the rows that edited_dict does not name are in dfNext as they are in df
RowsKept(df, dfNext, edited_dict) ==
    /\ DOMAIN dfNext.Valore = Rows
    /\ \A r \in Rows \ DOMAIN edited_dict :
          /\ dfNext.Valore[r] = df.Valore[r]
          /\ dfNext.Barra[r] = df.Barra[r]
          /\ dfNext.Fattore[r] = df.Fattore[r]

\* s1 and s2 are the session states that the callbacks of Team 1 and Team 2
\* leave when they read edited_dict
FrameKept(s1, s2, edited_dict) ==
    /\ RowsKept(team1_df, s1.team1_df, edited_dict)
    /\ s1.team2_df = team2_df
    /\ s1.imprevisti_df = imprevisti_df
    /\ RowsKept(team2_df, s2.team2_df, edited_dict)
    /\ s2.team1_df = team1_df
    /\ s2.imprevisti_df = imprevisti_df

\* C3: an edit of one team's table changes only the rows named in
\* edited_rows: in every reachable state and for every edited_rows, the
\* callback keeps every other row of its table, the whole table of the other
\* team and the catalog.
C3_EditFrame ==
    \A edited_dict \in EditedDicts :
        FrameKept(sync_team1(Session, edited_dict),
                  sync_team2(Session, edited_dict), edited_dict)

\* Team 1 has one edited and one untouched editable row while Team 2 holds an
\* edit of its own
C3_Witness ==
    /\ team1_df.Valore[0] = 0 /\ team1_df.Valore[2] = Default
    /\ team2_df.Valore[0] = Default /\ team2_df.Valore[2] = 0

\* the URL has a '/d/' followed by a non-empty identifier and a further '/'
HasIdPath(url) ==
    \E i \in Occurrences(url, DMarker) :
        \E j \in (i + 4)..Len(url) :
            /\ url[j] = "/"
            /\ \A k \in (i + 3)..(j - 1) : url[k] # "/"

\* C4 as stated: for every URL without the path shape '/d/<id>/' the load
\* fails and no fetch is made.
C4_NoIdPathFailsWithoutFetch ==
    (Clicked /\ Attempt.called /\ ~Attempt.hit /\ ~HasIdPath(Attempt.url))
        => (Attempt.value = None /\ ~Attempt.fetched)

\* C4 as amended: for every URL without the marker '/d/' the load fails and
\* neither a file id is extracted nor a fetch made; with the host marker
\* present the failure is the IndexError caught by the except clause and
\* reported with its general message.  (A URL whose '/d/<id>' is not followed
\* by '/' is accepted: the rest of the string is the id, and it is fetched.)
C4_NoMarkerFailsWithoutFetch ==
    (Clicked /\ Attempt.called /\ ~Attempt.hit /\ ~In(DMarker, Attempt.url))
        => /\ Attempt.value = None
           /\ ~Attempt.extracted /\ ~Attempt.fetched
           /\ Attempt.export_url = << >>
           /\ In(HostMarker, Attempt.url) =>
                 /\ Attempt.exc = "IndexError"
                 /\ Attempt.msgs = {ErrException, InfoSharing}

\* the loader ran on a URL with the host marker and without '/d/'
C4_Witness ==
    /\ Clicked /\ Attempt.called /\ ~Attempt.hit
    /\ In(HostMarker, Attempt.url) /\ ~In(DMarker, Attempt.url)
    /\ Attempt.exc = "IndexError"

\* C5: for every URL without the host marker the load fails with the
\* invalid-URL error before any other step: no file id is extracted, no
\* export URL is built, nothing is fetched.
C5_NoHostFailsFirst ==
    (Clicked /\ Attempt.called /\ ~In(HostMarker, Attempt.url))
        => /\ Attempt.value = None
           /\ Attempt.msgs = {ErrInvalidUrl}
           /\ Attempt.exc = "-"
           /\ ~Attempt.extracted /\ ~Attempt.fetched
           /\ Attempt.export_url = << >>

\* the loader ran on a URL that has the path '/d/<id>/' and no host marker
C5_Witness ==
    /\ Clicked /\ Attempt.called /\ ~Attempt.hit
    /\ ~In(HostMarker, Attempt.url) /\ HasIdPath(Attempt.url)
    /\ view.msgs = {ErrInvalidUrl, "info: Inserisci l'URL"}

\* why an executed load failed, from its inputs alone
Cause(a) ==
    IF ~In(HostMarker, a.url) THEN "host"
    ELSE IF ~In(DMarker, a.url) THEN "path"
    ELSE IF a.resp = << Unreachable >> THEN "fetch"
    ELSE IF a.resp # << >> /\ "imprevisto" \notin DOMAIN a.resp[1] THEN "schema"
    ELSE "none"

\* the error an attempt reported
ErrorKind(a) == a.msgs \cap {ErrInvalidUrl, ErrSchema, ErrException}

Executed(a) == a.called /\ ~a.hit

\* C6 as stated: the four causes of failure lead to four different kinds of
\* error, so two loads that fail for different causes never report the same
\* kind.  Stated of two consecutive clicks.
C6_FourKinds ==
    [][(/\ nLoads' = nLoads + 1
        /\ Clicked /\ Executed(last[1]) /\ Executed(last'[1])
        /\ Cause(last[1]) # "none" /\ Cause(last'[1]) # "none"
        /\ Cause(last[1]) # Cause(last'[1]))
          => ErrorKind(last[1]) # ErrorKind(last'[1])]_vars

\* C6 as amended: there are three kinds of error.  A missing host marker and
\* a missing column have a kind of their own; a missing '/d/' and a failed
\* fetch are both exceptions caught by the one except clause and reported
\* with the same message, and differ only in the exception it carries.
C6_ThreeKinds ==
    (Clicked /\ Executed(Attempt) /\ Cause(Attempt) # "none")
        => /\ Attempt.value = None
           /\ Cause(Attempt) = "host" =>
                 Attempt.msgs = {ErrInvalidUrl} /\ Attempt.exc = "-"
           /\ Cause(Attempt) = "path" =>
                 /\ Attempt.msgs = {ErrException, InfoSharing}
                 /\ Attempt.exc = "IndexError"
           /\ Cause(Attempt) = "fetch" =>
                 /\ Attempt.msgs = {ErrException, InfoSharing}
                 /\ Attempt.exc = "read_excel"
           /\ Cause(Attempt) = "schema" =>
                 Attempt.msgs = {ErrSchema} /\ Attempt.exc = "-"
           /\ Cardinality({ErrInvalidUrl, ErrSchema, ErrException}) = 3

\* a fetch was made and the document had no column 'imprevisto'
C6_Witness ==
    /\ Clicked /\ Executed(Attempt) /\ Cause(Attempt) = "schema"
    /\ ErrSchema \in view.msgs

\* the executions of the loader for url whose cache entry is alive at time now
AliveExecs(url, now) ==
    { i \in DOMAIN execs : execs[i].url = url /\ now - execs[i].t < ttl }

\* C7: a load answered from the cache makes no fetch and returns what the
\* one execution for that URL within the cache window returned, so the window
\* holds exactly one fetch for a URL that got as far as the fetch; two
\* executions for the same URL are never less than ttl apart, so a second
\* fetch happens only after the entry has expired.
C7_OneFetchPerWindow ==
    /\ (Clicked /\ Attempt.called /\ Attempt.hit) =>
          /\ ~Attempt.fetched
          /\ Cardinality(AliveExecs(Attempt.url, Attempt.t)) = 1
          /\ \A i \in AliveExecs(Attempt.url, Attempt.t) :
                /\ Attempt.value = execs[i].value
                /\ (In(HostMarker, Attempt.url) /\ In(DMarker, Attempt.url))
                       => execs[i].fetched
    /\ \A i, j \in DOMAIN execs :
          (i < j /\ execs[i].url = execs[j].url) => execs[j].t - execs[i].t >= ttl

\* the second of two loads of one URL returned the first one's catalog from
\* the cache
C7_Witness ==
    /\ Clicked /\ Attempt.hit /\ Attempt.value # None
    /\ nLoads = 2 /\ Len(execs) = 1
    /\ execs[1].fetched /\ execs[1].url = Attempt.url

\* C8: whenever the panel is rendered, Team 1 is reported lost iff one of its
\* rows has Valore <= 0, Team 2 likewise, the game is over iff either is, and
\* tables with the initial values report neither.
C8_GameOverVerdict ==
    view.panel =>
        /\ view.lost1 <=> (\E r \in Rows : team1_df.Valore[r] <= 0)
        /\ view.lost2 <=> (\E r \in Rows : team2_df.Valore[r] <= 0)
        /\ view.game_over <=> (view.lost1 \/ view.lost2)
        /\ ("error: GIOCO FINITO Squadra 1" \in view.msgs) <=> view.lost1
        /\ ("error: GIOCO FINITO Squadra 2" \in view.msgs) <=> view.lost2
        /\ team1_df = default_data => ~view.lost1
        /\ team2_df = default_data => ~view.lost2

\* both teams are reported lost at once
C8_Witness == view.panel /\ view.lost1 /\ view.lost2 /\ view.game_over

\* C9: the event shown is the entry of the event list at the 0-based position
\* selected_event - 1 (the TLA+ position selected_event), whatever the team
\* tables hold, so the same index shows the same event as long as the catalog
\* is the same; changing the number input leaves the catalog and the event
\* list as they were.
C9_DrawReturnsEntry ==
    /\ [](view.panel /\ ~view.stopped =>
            /\ view.selected_event = number_input.value
            /\ view.selected_event \in DOMAIN view.event_list
            /\ view.chosen_event = view.event_list[view.selected_event])
    /\ [][\A i \in 1..Len(view.event_list) :
            (number_input' # number_input /\ DrawIndex(i))
                => /\ imprevisti_df' = imprevisti_df
                   /\ view'.event_list = view.event_list
                   /\ view'.chosen_event = view.event_list[i]]_vars
    /\ [][(imprevisti_df' = imprevisti_df /\ number_input' = number_input)
            => view'.chosen_event = view.chosen_event]_vars

\* a catalog of the events flood and riot, index 2 drawn, after an edit
C9_Witness ==
    /\ view.event_list = << "flood", "riot" >>
    /\ view.selected_event = 2 /\ view.chosen_event = "riot"
    /\ team1_df.Valore[2] = 0

\* C10: whenever an event is drawn the index lies in 1..len(event_list) of
\* the catalog of that pass, also when a load has just replaced the catalog
\* by one with fewer events than the index selected before.
C10_IndexInRange ==
    /\ (view.panel /\ ~view.stopped) =>
          /\ view.selected_event >= 1
          /\ view.selected_event <= Len(view.event_list)
          /\ view.chosen_event # "IndexError"
    /\ number_input # NoWidget =>
          /\ view.panel /\ ~view.stopped
          /\ number_input.max = Len(view.event_list)
          /\ number_input.value \in 1..number_input.max

\* a second load has replaced a catalog of two events by one of one event
C10_Witness ==
    /\ nLoads = 2 /\ Clicked /\ Attempt.value = Doc1
    /\ \E i \in DOMAIN execs : execs[i].value = Doc2
    /\ Len(view.event_list) = 1 /\ view.selected_event = 1

\* C11: a load that succeeds with a column 'imprevisto' holding no non-null
\* cell is not an error: it reports no error and the catalog is present.  In
\* that state the script warns and stops before the draw section, so no
\* number input exists, no event is shown and no draw can be made.
C11_EmptyListGatesDraw ==
    /\ (Clicked /\ Attempt.called /\ Attempt.value # None) =>
          /\ imprevisti_df = Attempt.value
          /\ dropna(Attempt.value.imprevisto) = << >> =>
                /\ ErrorKind(Attempt) = {}
                /\ Attempt.exc = "-"
    /\ (imprevisti_df # None /\ dropna(imprevisti_df.imprevisto) = << >>) =>
          /\ view.panel /\ view.stopped
          /\ view.event_list = << >>
          /\ "warning: Nessun imprevisto valido" \in view.msgs
          /\ "warning: Imprevisto Pescato" \notin view.msgs
          /\ view.chosen_event = "-"
          /\ number_input = NoWidget
          /\ ~ENABLED Draw

\* the sheet with the empty column has just been fetched and stored
C11_Witness ==
    /\ Clicked /\ Executed(Attempt) /\ Attempt.value = DocEmpty
    /\ imprevisti_df = DocEmpty
    /\ view.panel /\ view.stopped

\* C12: game over neither blocks nor absorbs.  While a team is reported lost
\* both editors are still on the page and, unless the event list is empty, so
\* is the number input with its full range; an edit made in that state is applied to the table
\* and shown; an index chosen in that state shows its event; and an edit
\* after which every row of both tables is above 0 ends the game-over verdict.
C12_GameOverNonBlocking ==
    /\ [](view.game_over =>
            /\ EditorsShown
            /\ ~view.stopped =>
                  /\ number_input # NoWidget
                  /\ number_input.max = Len(view.event_list))
    /\ [][(view.game_over /\ edits' # edits) =>
            /\ team1_df'.Valore = edits'.team1 /\ view'.barra1 = edits'.team1
            /\ team2_df'.Valore = edits'.team2 /\ view'.barra2 = edits'.team2
            /\ (\A r \in Rows : edits'.team1[r] > 0 /\ edits'.team2[r] > 0)
                  => (view'.panel /\ ~view'.game_over
                      /\ ~view'.lost1 /\ ~view'.lost2)]_vars
    /\ [][(view.game_over /\ nLoads' = nLoads /\ number_input' # number_input) =>
            /\ view'.game_over
            /\ view'.selected_event = number_input'.value
            /\ view'.chosen_event = view.event_list[number_input'.value]]_vars

\* both teams are lost, which takes an edit made after the game was over, and
\* the second event has been drawn
C12_Witness ==
    /\ view.lost1 /\ view.lost2
    /\ edits.team1[0] = 0 /\ edits.team2[2] = 0
    /\ view.selected_event = 2 /\ view.chosen_event = "riot"
    /\ "warning: Il gioco e' terminato" \in view.msgs

\* the positions of the non-null cells of a column, and the number of
\* non-null cells down to position i
NonNull(col) == { i \in DOMAIN col : col[i] # NaN }
Rank(col, i) == Cardinality({ j \in NonNull(col) : j <= i })

\* C13: a load that succeeds stores the sheet as it was fetched, and the event
\* list drawn from is the column 'imprevisto' of the stored sheet from top to
\* bottom without its null cells: as long as the number of non-null cells,
\* and with the k-th non-null cell of the column at position k.
C13_EventListIsColumn ==
    /\ (Clicked /\ Executed(Attempt) /\ Attempt.value # None) =>
          /\ Attempt.fetched
          /\ "imprevisto" \in DOMAIN Attempt.resp[1]
          /\ Attempt.value = Attempt.resp[1]
          /\ imprevisti_df = Attempt.value
    /\ view.panel =>
          /\ Len(view.event_list) = Cardinality(NonNull(imprevisti_df.imprevisto))
          /\ NaN \notin { view.event_list[k] : k \in DOMAIN view.event_list }
          /\ \A i \in NonNull(imprevisti_df.imprevisto) :
                view.event_list[Rank(imprevisti_df.imprevisto, i)]
                    = imprevisti_df.imprevisto[i]

\* the sheet with a null cell between two events has just been fetched
C13_Witness ==
    /\ Clicked /\ Executed(Attempt) /\ Attempt.resp = << Doc2 >>
    /\ imprevisti_df.imprevisto = << "flood", NaN, "riot" >>
    /\ view.event_list = << "flood", "riot" >>

\* C14: the callback of an edit runs before the script of the same pass.  In
\* the pass of an edit the bars shown and both verdicts are those of the
\* tables after the edit; in particular an edit that types 0 into row 2 of a
\* table with the initial values shows, in that pass, the team as lost, the
\* game as over and the bar of row 2 at 0.
C14_EditBeforeRender ==
    [][edits' # edits =>
          /\ view'.panel
          /\ view'.barra1 = team1_df'.Barra /\ view'.barra1 = edits'.team1
          /\ view'.barra2 = team2_df'.Barra /\ view'.barra2 = edits'.team2
          /\ view'.lost1 <=> (\E r \in Rows : edits'.team1[r] <= 0)
          /\ view'.lost2 <=> (\E r \in Rows : edits'.team2[r] <= 0)
          /\ (team1_df = default_data /\ edits'.team1[2] = 0) =>
                (view'.lost1 /\ view'.game_over /\ view'.barra1[2] = 0)
          /\ (team2_df = default_data /\ edits'.team2[2] = 0) =>
                (view'.lost2 /\ view'.game_over /\ view'.barra2[2] = 0)]_vars

\* row 2 of Team 1 alone has been set to 0 and the run shows it
C14_Witness ==
    /\ edits.team1 = [r \in Rows |-> IF r = 2 THEN 0 ELSE Default]
    /\ team2_df = default_data
    /\ view.lost1 /\ ~view.lost2 /\ view.game_over
    /\ view.barra1[2] = 0 /\ view.barra1[0] = Default

\* a table of exactly the 8 factors in their order, with integer values in
\* min_value..max_value in both numeric columns
WellFormed(df) ==
    /\ DOMAIN df = { "Fattore", "Valore", "Barra" }
    /\ DOMAIN df.Fattore = 0..7 /\ DOMAIN df.Valore = 0..7
    /\ DOMAIN df.Barra = 0..7
    /\ \A r \in 0..7 :
          /\ df.Fattore[r] = FactorNames[r + 1]
          /\ df.Valore[r] \in 0..100
          /\ df.Barra[r] \in 0..100

C16_OnlyCacheShared ==
    /\ [][(nLoads' = nLoads + 1 /\ last'[1].called
              /\ AliveExecs(last'[1].url, clock) # {}) =>
            /\ last'[1].hit /\ ~last'[1].fetched
            /\ execs' = execs
            /\ \A i \in AliveExecs(last'[1].url, clock) :
                  /\ last'[1].value = execs[i].value
                  /\ sessions'[actor'].ss.imprevisti_df = execs[i].value]_vars
    /\ [][\A o \in SessionIds \ {actor'} : sessions'[o] = sessions[o]]_vars
    /\ [][sessions' # sessions => sessions'[actor'] # sessions[actor']]_vars

\* session s2 got from the cache the catalog that session s1 had fetched,
\* and the edit made in s1 is in the table of s1 only
C16_Witness ==
    /\ nLoads = 2 /\ Len(execs) = 1 /\ execs[1].fetched
    /\ actor = "s2" /\ Attempt.hit /\ Attempt.value = Doc2
    /\ sessions["s1"].ss.imprevisti_df = Doc2
    /\ sessions["s2"].ss.imprevisti_df = Doc2
    /\ sessions["s1"].ss.team1_df.Valore[0] = 0
    /\ sessions["s2"].ss.team1_df = default_data

\* C17: a failure is cached like a success.  A load of a URL whose latest
\* execution failed and is still within the cache window is answered from the
\* cache: the function body is not executed (no validation, no file id, no
\* fetch), the same error is reported again and the catalog is absent, so
\* the retry cannot succeed; once no execution for the URL is within the
\* window the body is executed again.
C17_FailureCached ==
    /\ [][(/\ nLoads' = nLoads + 1 /\ last'[1].called
           /\ \E i \in AliveExecs(last'[1].url, clock) : execs[i].value = None) =>
            /\ last'[1].hit /\ last'[1].value = None
            /\ ~last'[1].extracted /\ ~last'[1].fetched
            /\ execs' = execs /\ cache' = cache
            /\ last'[1].msgs = cache[last'[1].url].msgs
            /\ ErrorKind(last'[1]) # {}
            /\ ErrorKind(last'[1]) \subseteq view'.msgs
            /\ imprevisti_df' = None /\ ~view'.panel]_vars
    /\ [][(/\ nLoads' = nLoads + 1 /\ last'[1].called
           /\ AliveExecs(last'[1].url, clock) = {}) =>
            /\ ~last'[1].hit
            /\ Len(execs') = Len(execs) + 1]_vars

\* the retry of a URL whose fetch had failed got the failure from the cache
C17_Witness ==
    /\ nLoads = 2 /\ Len(execs) = 1
    /\ execs[1].fetched /\ execs[1].value = None
    /\ Attempt.hit /\ Attempt.url = execs[1].url /\ Attempt.value = None
    /\ Attempt.msgs = {ErrException, InfoSharing}
    /\ imprevisti_df = None

\* C18: only edits write the team tables.  In every reachable state every
\* row of both tables holds, in Valore and in Barra, the value last typed
\* into it, or 100 if nothing was typed; a step that is not an edit (a load
\* that succeeds or fails, a draw, the initialization at the top of every
\* run) leaves both tables as they were.
C18_OnlyEditsWriteTables ==
    /\ [](/\ team1_df.Valore = edits.team1 /\ team1_df.Barra = edits.team1
          /\ team2_df.Valore = edits.team2 /\ team2_df.Barra = edits.team2
          /\ view.panel => (/\ view.barra1 = edits.team1
                            /\ view.barra2 = edits.team2))
    /\ [][edits' = edits =>
            (team1_df' = team1_df /\ team2_df' = team2_df)]_vars

\* the pass of the third click: the first loaded the sheet, Team 1 was
\* edited, the second failed and hid the panel, and this one has brought the
\* panel back with the edit in place
C18_Witness ==
    /\ nLoads = 3 /\ Len(execs) = 2
    /\ execs[1].value = Doc2 /\ execs[2].value = None
    /\ Attempt.value = Doc2 /\ "success: Caricati" \in view.msgs
    /\ view.panel
    /\ team1_df.Valore[0] = 0 /\ view.barra1[0] = 0
    /\ team2_df = default_data

====
